---- MODULE Spec2Model ----
(***************************************************************************)
(* Bracket engine of TournamentBot: services/bracket_service.py,           *)
(* services/stats_service.py and the event_match table behind              *)
(* repositories/event_repo.py.                                             *)
(*                                                                         *)
(* The event_match table is the set `matches` of rows; a row is addressed  *)
(* by its unique key (bracket, round_no, match_no).  NULL columns hold     *)
(* NULL.  Every public call of the services is one action; what a call      *)
(* leaves in the table and the exception it raises are its Outcome.         *)
(***************************************************************************)
EXTENDS Integers, Sequences, FiniteSets, TLC

\* ------------------------------------------------------------------ bounds
\* Entrant counts explored: MinTeams..MaxTeams event_team rows, seeds 1..N.
MinTeams == 2
MaxTeams == 5
\* Calls of the services that may be in flight at the same time.
NumCalls == 2

\* ---------------------------------------------------------------- constants
\* A NULL column (Optional[int] is None).
NULL == 0

Formats == {"single_elim", "double_elim"}

VARIABLES
    fmt,        \* event.format
    teams,      \* event_team rows of the event: the sequence of their seeds
    matches,    \* event_match rows of the event
    calls,      \* the calls in flight: where each one stands, with its locals
    base,       \* the event_match rows when the first call in flight began
    arg,        \* the argument of the pure function under check
    ret,        \* what the function has returned for it so far
    event_status \* event.status

vars == <<fmt, teams, matches, calls, base, arg, ret, event_status>>

\* ------------------------------------------------------------ pure helpers

\* next_power_of_two: p = 1; while p < n: p <<= 1
RECURSIVE np2_loop(_, _)
np2_loop(p, n) == IF p < n THEN np2_loop(2 * p, n) ELSE p

next_power_of_two(n) == IF n <= 1 THEN 1 ELSE np2_loop(1, n)

\* Seeded fault: the seeds are placed in their own order.
seeded_positions_in_order(n) == [i \in 1..n |-> i]

\* seeded_positions: for s in prev: out.append(s); out.append(n + 1 - s)
RECURSIVE seeded_positions(_)
seeded_positions(n) ==
    IF n <= 1 THEN <<1>>
    ELSE IF n = 2 THEN <<1, 2>>
    ELSE LET prev == seeded_positions(n \div 2)
         IN  [i \in 1..(2 * Len(prev)) |->
                 IF i % 2 = 1 THEN prev[(i + 1) \div 2]
                 ELSE n + 1 - prev[i \div 2]]

\* int(math.log2(bracket_size)) for bracket_size >= 1
RECURSIVE log2_int(_)
log2_int(x) == IF x <= 1 THEN 0 ELSE 1 + log2_int(x \div 2)

\* The event_team_id of the team holding a seed (seed_to_id of _validate_seeds):
\* event_team rows of an event are inserted in seed order.
seed_to_id(s) == s

TeamIds == {seed_to_id(teams[i]) : i \in 1..Len(teams)}

\* --------------------------------------------------------------- the table

\* F applied to the value of v, computed once: a statement's result held in a
\* local variable and used by the statements after it.
Bind(v, F(_)) == CHOOSE r \in {F(x) : x \in {v}} : TRUE

Key(m) == <<m.bracket, m.round_no, m.match_no>>

Row(bracket, round_no, match_no, t1, t2) ==
    [bracket |-> bracket, round_no |-> round_no, match_no |-> match_no,
     t1 |-> t1, t2 |-> t2, status |-> "pending", winner |-> NULL, loser |-> NULL]

\* SELECT * FROM event_match WHERE <key>: the rows with that key
fetch_match(ms, k) == {m \in ms : Key(m) = k}

\* Seeded fault: the BYE UPDATE records the occupant as loser too.
_set_bye_winner_with_loser(ms, k, w) ==
    {IF Key(m) = k
        THEN [m EXCEPT !.status = "completed", !.winner = w, !.loser = w]
        ELSE m : m \in ms}

\* UPDATE ... SET status='completed', winner=%s, loser=NULL WHERE event_match_id=%s
_set_bye_winner(ms, k, w) ==
    {IF Key(m) = k
        THEN [m EXCEPT !.status = "completed", !.winner = w, !.loser = NULL]
        ELSE m : m \in ms}

\* EventRepo.set_match_result: the UPDATE has no condition on status
set_match_result(ms, k, w, l) ==
    {IF Key(m) = k
        THEN [m EXCEPT !.status = "completed", !.winner = w, !.loser = l]
        ELSE m : m \in ms}

\* The UPDATE of StatsService.report_match: ... AND status <> 'completed'
update_if_not_completed(ms, k, w, l) ==
    {IF Key(m) = k /\ m.status # "completed"
        THEN [m EXCEPT !.status = "completed", !.winner = w, !.loser = l]
        ELSE m : m \in ms}

\* rows in ORDER BY match_no (match_no is unique within a round)
SortByMatchNo(S) ==
    [i \in 1..Cardinality(S) |->
        CHOOSE x \in S : Cardinality({y \in S : y.match_no < x.match_no}) = i - 1]

_group(ms, bracket, round_no) ==
    Bind({m \in ms : m.bracket = bracket /\ m.round_no = round_no}, SortByMatchNo)

_all_completed(g) ==
    Len(g) > 0 /\ \A i \in 1..Len(g) : g[i].status = "completed"

\* Seeded fault: the first slot is taken for the winner of every match.
_winners_in_order_first_slot(g) == [i \in 1..Len(g) |-> g[i].t1]

_winners_in_order(g) ==
    [i \in 1..Len(g) |-> IF g[i].winner = NULL THEN g[i].t1 ELSE g[i].winner]

IsRealLoss(m) == m.t2 # NULL /\ m.loser # NULL

\* Seeded fault: the winner is taken where the loser is due.
_losers_in_order_winner_taken(g) ==
    LET kept == SelectSeq(g, IsRealLoss)
    IN  [i \in 1..Len(kept) |-> kept[i].winner]

_losers_in_order(g) ==
    LET kept == SelectSeq(g, IsRealLoss)
    IN  [i \in 1..Len(kept) |-> kept[i].loser]

\* the outcome of a call: the table it leaves and the exception it raised
Outcome(ms, raised) == [ms |-> ms, raised |-> raised]

\* EventRepo.create_match: the INSERT; the table's unique key on
\* (event, bracket, round_no, match_no) makes a duplicate an IntegrityError
create_match(ms, bracket, round_no, match_no, t1, t2) ==
    IF fetch_match(ms, <<bracket, round_no, match_no>>) # {}
        THEN Outcome(ms, "IntegrityError")
        ELSE Outcome(ms \cup {Row(bracket, round_no, match_no, t1, t2)}, "none")

\* try: create_match; _set_bye_winner when t2 is None; except IntegrityError:
\* return None
_safe_create_match(ms, bracket, round_no, match_no, t1, t2) ==
    LET created == create_match(ms, bracket, round_no, match_no, t1, t2)
    IN  IF created.raised = "IntegrityError" THEN ms
        ELSE IF t2 = NULL
                THEN _set_bye_winner(created.ms, <<bracket, round_no, match_no>>, t1)
                ELSE created.ms

\* Seeded fault: the pair is written with its slots exchanged.
RECURSIVE pair_loop_swapped(_, _, _, _, _)
pair_loop_swapped(ms, bracket, round_no, entrants, i) ==
    IF i > Len(entrants) THEN ms
    ELSE Bind(IF i + 1 <= Len(entrants)
                 THEN _safe_create_match(ms, bracket, round_no, (i + 1) \div 2,
                                         entrants[i + 1], entrants[i])
                 ELSE _safe_create_match(ms, bracket, round_no, (i + 1) \div 2,
                                         entrants[i], NULL),
              LAMBDA ms1 : pair_loop_swapped(ms1, bracket, round_no, entrants, i + 2))

\* while i < len(entrants): t1 = entrants[i]; t2 = entrants[i+1] or None
RECURSIVE pair_loop(_, _, _, _, _)
pair_loop(ms, bracket, round_no, entrants, i) ==
    IF i > Len(entrants) THEN ms
    ELSE Bind(_safe_create_match(ms, bracket, round_no, (i + 1) \div 2, entrants[i],
                   IF i + 1 <= Len(entrants) THEN entrants[i + 1] ELSE NULL),
              LAMBDA ms1 : pair_loop(ms1, bracket, round_no, entrants, i + 2))

_create_round_from_pairs(ms, bracket, round_no, entrants) ==
    IF entrants = <<>> THEN ms ELSE pair_loop(ms, bracket, round_no, entrants, 1)

Max(a, b) == IF a >= b THEN a ELSE b

\* Seeded fault: a pair whose left side is missing keeps its empty first slot.
ZipAt_unswapped(left, right, i) ==
    LET t1 == IF i <= Len(left) THEN left[i] ELSE NULL
        t2 == IF i <= Len(right) THEN right[i] ELSE NULL
    IN  <<t1, t2>>

ZipAt(left, right, i) ==
    LET t1 == IF i <= Len(left) THEN left[i] ELSE NULL
        t2 == IF i <= Len(right) THEN right[i] ELSE NULL
    IN  IF t1 = NULL THEN <<t2, NULL>> ELSE <<t1, t2>>

\* both sides are lists of team ids, so (None, None) never occurs for i < m
_zip_cross(left, right) ==
    [i \in 1..Max(Len(left), Len(right)) |-> ZipAt(left, right, i)]

RECURSIVE cross_loop(_, _, _, _)
cross_loop(ms, round_no, entrants, i) ==
    IF i > Len(entrants) THEN ms
    ELSE Bind(_safe_create_match(ms, "L", round_no, i, entrants[i][1], entrants[i][2]),
              LAMBDA ms1 : cross_loop(ms1, round_no, entrants, i + 1))

_create_round_from_cross(ms, round_no, entrants) == cross_loop(ms, round_no, entrants, 1)

\* ------------------------------------------------------ Advancement Engine

\* Seeded fault: the loop stops at two winners instead of one, so the final
\* round is never created.
RECURSIVE single_elim_loop_short(_, _)
single_elim_loop_short(ms, r) ==
    LET curr == _group(ms, "W", r)
    IN  IF curr = <<>> \/ ~_all_completed(curr) THEN ms
        ELSE LET winners == _winners_in_order(curr)
             IN  IF Len(winners) <= 2 THEN ms
                 ELSE IF _group(ms, "W", r + 1) # <<>>
                         THEN single_elim_loop_short(ms, r + 1)
                         ELSE Bind(pair_loop(ms, "W", r + 1, winners, 1),
                                   LAMBDA ms1 : single_elim_loop_short(ms1, r + 1))

\* the while-loop of _advance_single_elim, entered with round r
RECURSIVE single_elim_loop(_, _)
single_elim_loop(ms, r) ==
    LET curr == _group(ms, "W", r)
    IN  IF curr = <<>> \/ ~_all_completed(curr) THEN ms
        ELSE LET winners == _winners_in_order(curr)
             IN  IF Len(winners) <= 1 THEN ms
                 ELSE IF _group(ms, "W", r + 1) # <<>>
                         THEN single_elim_loop(ms, r + 1)
                         ELSE Bind(pair_loop(ms, "W", r + 1, winners, 1),
                                   LAMBDA ms1 : single_elim_loop(ms1, r + 1))

_advance_single_elim(ms) ==
    IF {m \in ms : m.bracket = "W"} = {} THEN ms ELSE single_elim_loop(ms, 1)

has_round(ms, bracket, round_no) ==
    \E m \in ms : m.bracket = bracket /\ m.round_no = round_no

\* Seeded fault: Losers round 1 is created without waiting for all of Winners
\* round 1.
losers_round1_early(ms) ==
    LET wb_r1 == _group(ms, "W", 1)
    IN  IF ~has_round(ms, "L", 1)
            THEN _create_round_from_pairs(ms, "L", 1, _losers_in_order(wb_r1))
            ELSE ms

\* "LB round 1 from WB1 losers"
losers_round1(ms) ==
    LET wb_r1 == _group(ms, "W", 1)
    IN  IF _all_completed(wb_r1) /\ ~has_round(ms, "L", 1)
            THEN _create_round_from_pairs(ms, "L", 1, _losers_in_order(wb_r1))
            ELSE ms

\* Seeded fault: the two sides of the cross round are exchanged.
losers_cross_sides_exchanged(ms, wb_round) ==
    LET lb_cross == 2 * wb_round - 2
        lb_prev_matches == _group(ms, "L", lb_cross - 1)
    IN  IF ~has_round(ms, "L", lb_cross)
            THEN _create_round_from_cross(ms, lb_cross,
                     _zip_cross(_losers_in_order(_group(ms, "W", wb_round)),
                                _winners_in_order(lb_prev_matches)))
            ELSE ms

\* the cross round of one pass of the for-loop over wb_round
losers_cross(ms, wb_round) ==
    LET lb_cross == 2 * wb_round - 2
        lb_prev_matches == _group(ms, "L", lb_cross - 1)
    IN  IF ~has_round(ms, "L", lb_cross)
            THEN _create_round_from_cross(ms, lb_cross,
                     _zip_cross(_winners_in_order(lb_prev_matches),
                                _losers_in_order(_group(ms, "W", wb_round))))
            ELSE ms

\* the pure round of one pass of the for-loop over wb_round
losers_pure(ms, wb_round) ==
    LET lb_cross == 2 * wb_round - 2
        lb_pure == lb_cross + 1
        lb_cross_matches == _group(ms, "L", lb_cross)
    IN  IF _all_completed(lb_cross_matches) /\ ~has_round(ms, "L", lb_pure)
            THEN _create_round_from_pairs(ms, "L", lb_pure, _winners_in_order(lb_cross_matches))
            ELSE ms

\* for wb_round in range(2, max(2, n)), with its three breaks
RECURSIVE losers_loop(_, _, _)
losers_loop(ms, wb_round, n) ==
    IF wb_round >= Max(2, n) THEN ms
    ELSE LET wb == _group(ms, "W", wb_round)
             lb_prev == 2 * wb_round - 3
         IN  IF wb = <<>> \/ ~_all_completed(wb) THEN ms
             ELSE IF ~has_round(ms, "L", lb_prev) THEN ms
             ELSE IF ~_all_completed(_group(ms, "L", lb_prev)) THEN ms
             ELSE Bind(losers_cross(ms, wb_round), LAMBDA ms1 :
                  Bind(losers_pure(ms1, wb_round), LAMBDA ms2 :
                  losers_loop(ms2, wb_round + 1, n)))

\* Seeded fault: the reset match is numbered after the Grand Finals matches
\* present and the test for an existing reset match is missing.
grand_finals_reset_renumbered(ms, wb_champ, lb_champ) ==
    LET gf_round == _group(ms, "GF", 1)
        gf1 == {gf_round[i] : i \in {j \in 1..Len(gf_round) : gf_round[j].match_no = 1}}
    IN  IF \E g \in gf1 : g.status = "completed" /\ g.winner = lb_champ
            THEN _safe_create_match(ms, "GF", 1, Len(gf_round) + 1, wb_champ, lb_champ)
            ELSE ms

\* Seeded fault: the reset match is created whoever won GF-01.
grand_finals_reset_any_winner(ms, wb_champ, lb_champ) ==
    LET gf_round == _group(ms, "GF", 1)
        gf1 == {gf_round[i] : i \in {j \in 1..Len(gf_round) : gf_round[j].match_no = 1}}
        gf2 == {gf_round[i] : i \in {j \in 1..Len(gf_round) : gf_round[j].match_no = 2}}
    IN  IF \E g \in gf1 : g.status = "completed" /\ gf2 = {}
            THEN _safe_create_match(ms, "GF", 1, 2, wb_champ, lb_champ)
            ELSE ms

\* the reset match: GF-02 when GF-01 went to the Losers champion
grand_finals_reset(ms, wb_champ, lb_champ) ==
    LET gf_round == _group(ms, "GF", 1)
        gf1 == {gf_round[i] : i \in {j \in 1..Len(gf_round) : gf_round[j].match_no = 1}}
        gf2 == {gf_round[i] : i \in {j \in 1..Len(gf_round) : gf_round[j].match_no = 2}}
    IN  IF \E g \in gf1 : g.status = "completed" /\ g.winner = lb_champ /\ gf2 = {}
            THEN _safe_create_match(ms, "GF", 1, 2, wb_champ, lb_champ)
            ELSE ms

\* Seeded fault: GF-01 is created without waiting for the last Losers round.
grand_finals_early(ms, n, wb_champ) ==
    LET lb_final == _group(ms, "L", 2 * n - 2)
        lb_champ == _winners_in_order(lb_final)[1]
    IN  Bind(IF ~has_round(ms, "GF", 1)
                THEN _safe_create_match(ms, "GF", 1, 1, wb_champ, lb_champ)
                ELSE ms,
             LAMBDA ms1 : grand_finals_reset(ms1, wb_champ, lb_champ))

\* "WB final -> LB final -> GF", after the last Losers cross round exists
grand_finals(ms, n, wb_champ) ==
    LET lb_final == _group(ms, "L", 2 * n - 2)
    IN  IF ~_all_completed(lb_final) THEN ms
        ELSE LET lb_champ == _winners_in_order(lb_final)[1]
             IN  Bind(IF ~has_round(ms, "GF", 1)
                         THEN _safe_create_match(ms, "GF", 1, 1, wb_champ, lb_champ)
                         ELSE ms,
                      LAMBDA ms1 : grand_finals_reset(ms1, wb_champ, lb_champ))

\* the last Losers cross round: last pure round's winner against the loser
\* of the Winners Final
losers_final(ms, n) ==
    LET wb_final == _group(ms, "W", n)
        lb_last_pure == 2 * n - 3
        lb_last_cross == 2 * n - 2
    IN  IF wb_final = <<>> \/ ~_all_completed(wb_final) THEN ms
        ELSE LET wb_champ == _winners_in_order(wb_final)[1]
                 wb_final_losers == _losers_in_order(wb_final)
                 lb_last_pure_matches == _group(ms, "L", lb_last_pure)
             IN  IF ~has_round(ms, "L", lb_last_pure) THEN ms
                 ELSE IF ~_all_completed(lb_last_pure_matches) THEN ms
                 ELSE LET lb_last_pure_winner == _winners_in_order(lb_last_pure_matches)[1]
                          wb_final_loser == IF wb_final_losers # <<>>
                                               THEN wb_final_losers[1]
                                               ELSE lb_last_pure_winner
                      IN  Bind(IF ~has_round(ms, "L", lb_last_cross)
                                  THEN _safe_create_match(ms, "L", lb_last_cross, 1,
                                           lb_last_pure_winner, wb_final_loser)
                                  ELSE ms,
                               LAMBDA ms1 : grand_finals(ms1, n, wb_champ))

\* Seeded fault: the return for a bracket of two is missing.
losers_and_finals_any_size(ms) ==
    LET wb_r1 == _group(ms, "W", 1)
        bracket_size == 2 * Len(wb_r1)
    IN  IF wb_r1 = <<>> THEN ms
        ELSE LET n == log2_int(bracket_size)
             IN  Bind(losers_round1(ms), LAMBDA ms1 :
                 Bind(losers_loop(ms1, 2, n), LAMBDA ms2 :
                 losers_final(ms2, n)))

\* _advance_double_elim after its call of _advance_single_elim
losers_and_finals(ms) ==
    LET wb_r1 == _group(ms, "W", 1)
        bracket_size == 2 * Len(wb_r1)
    IN  IF wb_r1 = <<>> THEN ms
        ELSE IF bracket_size <= 2 THEN ms
        ELSE LET n == log2_int(bracket_size)
             IN  Bind(losers_round1(ms), LAMBDA ms1 :
                 Bind(losers_loop(ms1, 2, n), LAMBDA ms2 :
                 losers_final(ms2, n)))

_advance_double_elim(ms) == Bind(_advance_single_elim(ms), losers_and_finals)

advance(ms) ==
    IF fmt = "single_elim" THEN Outcome(_advance_single_elim(ms), "none")
    ELSE IF fmt = "double_elim" THEN Outcome(_advance_double_elim(ms), "none")
    ELSE Outcome(ms, "BracketStateError")

\* --------------------------------------------------------- bracket creation

Seeds == {teams[i] : i \in 1..Len(teams)}

\* _validate_seeds: every seed set, no duplicate, min 1 and max N
seeds_valid ==
    /\ \A i \in 1..Len(teams) : teams[i] # NULL
    /\ Cardinality(Seeds) = Len(teams)
    /\ \A s \in Seeds : s >= 1 /\ s <= Len(teams)
    /\ 1 \in Seeds /\ Len(teams) \in Seeds

\* Seeded fault: the seed equal to team_count is taken for a BYE.
_pair_round1_last_seed_dropped(team_count, bracket_size) ==
    LET pos == seeded_positions(bracket_size)
    IN  [i \in 1..(bracket_size \div 2) |->
            <<IF pos[2 * i - 1] < team_count THEN seed_to_id(pos[2 * i - 1]) ELSE NULL,
              IF pos[2 * i] < team_count THEN seed_to_id(pos[2 * i]) ELSE NULL>>]

\* _pair_round1_by_standard_seeding: pair i is <<t1, t2>>, a seed above
\* team_count gives None
_pair_round1_by_standard_seeding(team_count, bracket_size) ==
    LET pos == seeded_positions(bracket_size)
    IN  [i \in 1..(bracket_size \div 2) |->
            <<IF pos[2 * i - 1] <= team_count THEN seed_to_id(pos[2 * i - 1]) ELSE NULL,
              IF pos[2 * i] <= team_count THEN seed_to_id(pos[2 * i]) ELSE NULL>>]

\* Seeded fault: a BYE match of round 1 is left Pending.
RECURSIVE create_round1_bye_pending(_, _, _)
create_round1_bye_pending(ms, pairs, match_no) ==
    IF match_no > Len(pairs) THEN ms
    ELSE Bind(ms \cup {Row("W", 1, match_no, pairs[match_no][1], pairs[match_no][2])},
              LAMBDA ms1 : create_round1_bye_pending(ms1, pairs, match_no + 1))

\* "Create Winners Bracket Round 1 (W1)": create_match, then _set_bye_winner
\* when t2 is None
RECURSIVE create_round1(_, _, _)
create_round1(ms, pairs, match_no) ==
    IF match_no > Len(pairs) THEN ms
    ELSE LET t1 == pairs[match_no][1]
             t2 == pairs[match_no][2]
             created == ms \cup {Row("W", 1, match_no, t1, t2)}
         IN  Bind(IF t2 = NULL
                     THEN _set_bye_winner(created, <<"W", 1, match_no>>, t1)
                     ELSE created,
                  LAMBDA ms1 : create_round1(ms1, pairs, match_no + 1))

create_bracket(ms) ==
    IF ms # {} THEN Outcome(ms, "BracketAlreadyExistsError")
    ELSE IF teams = <<>> THEN Outcome(ms, "BracketStateError")
    ELSE IF ~seeds_valid THEN Outcome(ms, "BracketStateError")
    ELSE LET team_count == Len(teams)
             bracket_size == next_power_of_two(team_count)
             pairs == _pair_round1_by_standard_seeding(team_count, bracket_size)
         IN  IF bracket_size < 2 THEN Outcome(ms, "IndexError")
             ELSE IF \E i \in 1..Len(pairs) : pairs[i][1] = NULL
                     THEN Outcome(ms, "BracketStateError")
             ELSE Bind(create_round1(ms, pairs, 1), LAMBDA round1 :
                  Bind(advance(round1), LAMBDA adv :
                  IF adv.raised # "none" THEN adv
                  ELSE IF fmt \notin {"single_elim", "double_elim"}
                          THEN Outcome(adv.ms, "BracketStateError")
                          ELSE adv))

\* ---------------------------------------------------------- Result Recorder

\* Seeded fault: record_result without its test for a Completed match.
record_result_unguarded(ms, k, w) ==
    LET found == fetch_match(ms, k)
    IN  IF found = {} THEN Outcome(ms, "BracketStateError")
        ELSE LET m == CHOOSE x \in found : TRUE
             IN  IF m.t2 = NULL THEN Outcome(_set_bye_winner(ms, k, m.t1), "none")
                 ELSE IF w \notin {m.t1, m.t2} THEN Outcome(ms, "BracketStateError")
                 ELSE Bind(set_match_result(ms, k, w, IF w = m.t1 THEN m.t2 ELSE m.t1),
                           advance)

\* BracketService.record_result
record_result(ms, k, w) ==
    LET found == fetch_match(ms, k)
    IN  IF found = {} THEN Outcome(ms, "BracketStateError")
        ELSE LET m == CHOOSE x \in found : TRUE
             IN  IF m.status = "completed" THEN Outcome(ms, "none")
                 ELSE IF m.t2 = NULL THEN Outcome(_set_bye_winner(ms, k, m.t1), "none")
                 ELSE IF w \notin {m.t1, m.t2} THEN Outcome(ms, "BracketStateError")
                 ELSE Bind(set_match_result(ms, k, w, IF w = m.t1 THEN m.t2 ELSE m.t1),
                           advance)

\* Seeded fault: report_match without its test that the winner is an occupant.
report_match_unchecked(ms, k, w) ==
    LET found == fetch_match(ms, k)
    IN  IF found = {} THEN Outcome(ms, "MatchNotFoundError")
        ELSE LET m == CHOOSE x \in found : TRUE
             IN  IF m.status = "completed" THEN advance(ms)
                 ELSE IF m.t2 = NULL THEN Outcome(ms, "MatchStateError")
                 ELSE Bind(update_if_not_completed(ms, k, w,
                                                   IF w = m.t1 THEN m.t2 ELSE m.t1),
                           advance)

\* Seeded fault: report_match returns after its UPDATE, without advance.
report_match_without_advance(ms, k, w) ==
    LET found == fetch_match(ms, k)
    IN  IF found = {} THEN Outcome(ms, "MatchNotFoundError")
        ELSE LET m == CHOOSE x \in found : TRUE
             IN  IF m.status = "completed" THEN advance(ms)
                 ELSE IF m.t2 = NULL THEN Outcome(ms, "MatchStateError")
                 ELSE IF w \notin {m.t1, m.t2} THEN Outcome(ms, "MatchStateError")
                 ELSE Outcome(update_if_not_completed(ms, k, w,
                                  IF w = m.t1 THEN m.t2 ELSE m.t1), "none")

\* _maybe_update_event_status: the test on the rows that the event is over
is_complete(ms) ==
    IF fmt = "single_elim"
        THEN LET wb == {m \in ms : m.bracket = "W"}
                 finals == {m \in wb : \A x \in wb : x.round_no <= m.round_no}
             IN  /\ wb # {}
                 /\ Cardinality(finals) = 1
                 /\ \A m \in finals : m.status = "completed"
    ELSE IF fmt = "double_elim"
        THEN LET gf == {m \in ms : m.bracket = "GF" /\ m.round_no = 1}
                 gf1 == {m \in gf : m.match_no = 1}
                 gf2 == {m \in gf : m.match_no = 2}
             IN  IF gf2 # {} THEN \A m \in gf2 : m.status = "completed"
                 ELSE IF gf1 # {} THEN \A m \in gf1 : m.status = "completed"
                 ELSE FALSE
    ELSE FALSE

\* _maybe_update_event_status: the status after 'locked -> active'
activated(ms, status) ==
    IF (\E m \in ms : m.status = "completed") /\ status \in {"draft", "open", "locked"}
        THEN "active"
        ELSE status

\* StatsService._maybe_update_event_status: the status it leaves
_maybe_update_event_status(ms, status) ==
    IF is_complete(ms) /\ activated(ms, status) # "completed"
        THEN "completed"
        ELSE activated(ms, status)

\* StatsService.report_match, called without player_stats: the rows it leaves
\* and what it raises; the status of the event is report_match_status
report_match(ms, k, w) ==
    LET found == fetch_match(ms, k)
    IN  IF found = {} THEN Outcome(ms, "MatchNotFoundError")
        ELSE LET m == CHOOSE x \in found : TRUE
             IN  IF m.status = "completed" THEN advance(ms)
                 ELSE IF m.t2 = NULL THEN Outcome(ms, "MatchStateError")
                 ELSE IF w \notin {m.t1, m.t2} THEN Outcome(ms, "MatchStateError")
                 ELSE Bind(update_if_not_completed(ms, k, w,
                                                   IF w = m.t1 THEN m.t2 ELSE m.t1),
                           advance)

\* the status of the event after report_match(ms, k, w) has left out: the
\* status is looked at only when the call completed the match itself and
\* its advance pass raised nothing
report_match_status(ms, k, out, status) ==
    LET found == fetch_match(ms, k)
    IN  IF found = {} \/ out.raised # "none" THEN status
        ELSE IF (CHOOSE x \in found : TRUE).status = "completed" THEN status
        ELSE _maybe_update_event_status(out.ms, status)

\* ------------------------------------------------------------------ actions

\* an event_match_id that names no row
AbsentKey == <<"GF", 1, 3>>

\* an id that is no event_team of the event
NoTeam == seed_to_id(Len(teams) + 1)

\* arguments a caller can pass: a row of the table or an unknown id; a team of
\* the event or an id that is no team of it
KeyArgs == {Key(m) : m \in matches} \cup {AbsentKey}
WinnerArgs == TeamIds \cup {NoTeam}

\* no pure function has been called
NoCall == [step |-> "none"]

\* a call slot with no call in it; after is what follows the advance pass of
\* the call, status and is_complete are locals of _maybe_update_event_status
Idle ==
    [op |-> "none", k |-> <<>>, w |-> NULL, l |-> NULL, pc |-> "idle", cont |-> "return",
     r |-> 0, todo |-> <<>>, wb_champ |-> NULL, lb_champ |-> NULL, raised |-> "none",
     after |-> "return", status |-> "none", is_complete |-> FALSE]

Procs == 1..NumCalls

Init ==
    /\ fmt \in Formats
    /\ teams \in {[i \in 1..n |-> i] : n \in MinTeams..MaxTeams}
    /\ matches = {}
    /\ calls = [p \in Procs |-> Idle]
    /\ base = {}
    /\ arg = <<>>
    /\ ret = NoCall
    /\ event_status = "locked"

\* the create_bracket command: BracketService.create_bracket and, when it
\* raised nothing, set_event_status 'active'
CreateBracket ==
    \E out \in {create_bracket(matches)} :
        /\ matches' = out.ms
        /\ event_status' = IF out.raised = "none" THEN "active" ELSE event_status
        /\ UNCHANGED <<arg, ret, fmt, teams, calls, base>>

Advance ==
    /\ matches' = advance(matches).ms
    /\ UNCHANGED <<event_status, arg, ret, fmt, teams, calls, base>>

RecordResult ==
    \E k \in KeyArgs, w \in WinnerArgs :
        /\ matches' = record_result(matches, k, w).ms
        /\ UNCHANGED <<event_status, arg, ret, fmt, teams, calls, base>>

ReportMatch ==
    \E k \in KeyArgs, w \in WinnerArgs :
        /\ \E out \in {report_match(matches, k, w)} :
              /\ matches' = out.ms
              /\ event_status' = report_match_status(matches, k, out, event_status)
        /\ UNCHANGED <<arg, ret, fmt, teams, calls, base>>

Next == CreateBracket \/ Advance \/ RecordResult \/ ReportMatch

Spec == Init /\ [][Next]_vars

\* A tournament being played: the bracket is created and each Pending match
\* is reported, through either reporter, by one of its occupants.
RecordPending ==
    \E m \in matches : \E w \in {m.t1, m.t2} :
        /\ m.status = "pending" /\ w # NULL
        /\ matches' = record_result(matches, Key(m), w).ms
        /\ UNCHANGED <<event_status, arg, ret, fmt, teams, calls, base>>

ReportPending ==
    \E m \in matches : \E w \in {m.t1, m.t2} :
        /\ m.status = "pending" /\ w # NULL
        /\ \E out \in {report_match(matches, Key(m), w)} :
              /\ matches' = out.ms
              /\ event_status' = report_match_status(matches, Key(m), out, event_status)
        /\ UNCHANGED <<arg, ret, fmt, teams, calls, base>>

PlayNext == CreateBracket \/ Advance \/ RecordPending \/ ReportPending

\* Every Pending match is eventually reported with one of its occupants.
FairSpec ==
    /\ Init /\ [][PlayNext]_vars
    /\ WF_vars(CreateBracket)
    /\ WF_vars(RecordPending \/ ReportPending)

\* ---------------------------------------------------------- concurrent calls
\* Every statement sent to the database is its own transaction (autocommit),
\* and a call gives way to other calls at each of them.  A call in flight
\* stands before its next statement (pc); what it computed from the rows it
\* last listed is in its locals.  A step is one statement and the local
\* computation up to the next one.  get_event reads the format, which no call
\* writes, and the rows listed at the top of _advance_double_elim are listed
\* again before they are used: neither is a step of its own.

\* what a call does after listing the rows: the INSERTs of the round it
\* creates (todo), then the place it lists the rows again (cont: "return" when
\* the call ends without another statement)
Plan(todo, cont, r, wb_champ, lb_champ) ==
    [todo |-> todo, cont |-> cont, r |-> r, wb_champ |-> wb_champ, lb_champ |-> lb_champ]

Return == Plan(<<>>, "return", 0, NULL, NULL)

\* the create_match calls of _create_round_from_pairs, in order
pairs_todo(bracket, round_no, entrants) ==
    [i \in 1..((Len(entrants) + 1) \div 2) |->
        <<bracket, round_no, i, entrants[2 * i - 1],
          IF 2 * i <= Len(entrants) THEN entrants[2 * i] ELSE NULL>>]

\* the create_match calls of _create_round_from_cross, in order
cross_todo(round_no, entrants) ==
    [i \in 1..Len(entrants) |-> <<"L", round_no, i, entrants[i][1], entrants[i][2]>>]

\* n = int(math.log2(2 * len(wb_r1)))
rounds_of(snap) == log2_int(2 * Len(_group(snap, "W", 1)))

\* _advance_single_elim from the top of its while-loop, with the rows listed
RECURSIVE single_elim_from(_, _)
single_elim_from(snap, r) ==
    LET curr == _group(snap, "W", r)
        after == IF fmt = "single_elim" THEN Return ELSE Plan(<<>>, "de", 0, NULL, NULL)
    IN  IF curr = <<>> \/ ~_all_completed(curr) THEN after
        ELSE LET winners == _winners_in_order(curr)
             IN  IF Len(winners) <= 1 THEN after
                 ELSE IF _group(snap, "W", r + 1) # <<>> THEN single_elim_from(snap, r + 1)
                 ELSE Plan(pairs_todo("W", r + 1, winners), "se", r + 1, NULL, NULL)

\* the reset match, with the rows listed after GF-01
reset_from(snap, wb_champ, lb_champ) ==
    LET gf_round == _group(snap, "GF", 1)
        gf1 == {gf_round[i] : i \in {j \in 1..Len(gf_round) : gf_round[j].match_no = 1}}
        gf2 == {gf_round[i] : i \in {j \in 1..Len(gf_round) : gf_round[j].match_no = 2}}
    IN  IF \E g \in gf1 : g.status = "completed" /\ g.winner = lb_champ /\ gf2 = {}
            THEN Plan(<<<<"GF", 1, 2, wb_champ, lb_champ>>>>, "return", 0, NULL, NULL)
            ELSE Return

\* from lb_final = _group(matches, "L", lb_last_cross) on
lb_final_from(snap, wb_champ) ==
    LET lb_final == _group(snap, "L", 2 * rounds_of(snap) - 2)
    IN  IF ~_all_completed(lb_final) THEN Return
        ELSE LET lb_champ == _winners_in_order(lb_final)[1]
             IN  IF ~has_round(snap, "GF", 1)
                    THEN Plan(<<<<"GF", 1, 1, wb_champ, lb_champ>>>>, "reset", 0,
                              wb_champ, lb_champ)
                    ELSE reset_from(snap, wb_champ, lb_champ)

\* from "WB final -> LB final -> GF" on
wb_final_from(snap) ==
    LET n == rounds_of(snap)
        wb_final == _group(snap, "W", n)
        lb_last_pure_matches == _group(snap, "L", 2 * n - 3)
    IN  IF \/ wb_final = <<>> \/ ~_all_completed(wb_final)
           \/ ~has_round(snap, "L", 2 * n - 3)
           \/ ~_all_completed(lb_last_pure_matches)
            THEN Return
        ELSE LET wb_champ == _winners_in_order(wb_final)[1]
                 wb_final_losers == _losers_in_order(wb_final)
                 lb_last_pure_winner == _winners_in_order(lb_last_pure_matches)[1]
                 wb_final_loser == IF wb_final_losers # <<>>
                                      THEN wb_final_losers[1]
                                      ELSE lb_last_pure_winner
             IN  IF ~has_round(snap, "L", 2 * n - 2)
                    THEN Plan(<<<<"L", 2 * n - 2, 1, lb_last_pure_winner, wb_final_loser>>>>,
                              "lb_final", 0, wb_champ, NULL)
                    ELSE lb_final_from(snap, wb_champ)

\* the for-loop over wb_round: from its top (losers_loop_from) and from
\* lb_pure = lb_cross + 1 (lb_pure_from)
RECURSIVE losers_loop_from(_, _)
RECURSIVE lb_pure_from(_, _)
losers_loop_from(snap, wb_round) ==
    LET wb == _group(snap, "W", wb_round)
        lb_cross == 2 * wb_round - 2
        lb_prev_matches == _group(snap, "L", lb_cross - 1)
        leave == \/ wb_round >= Max(2, rounds_of(snap))
                 \/ wb = <<>> \/ ~_all_completed(wb)
                 \/ ~has_round(snap, "L", lb_cross - 1)
                 \/ ~_all_completed(lb_prev_matches)
    IN  IF leave THEN wb_final_from(snap)
        ELSE IF ~has_round(snap, "L", lb_cross)
                THEN Plan(cross_todo(lb_cross,
                              _zip_cross(_winners_in_order(lb_prev_matches),
                                         _losers_in_order(wb))),
                          "lb_pure", wb_round, NULL, NULL)
                ELSE lb_pure_from(snap, wb_round)

lb_pure_from(snap, wb_round) ==
    LET lb_cross == 2 * wb_round - 2
        lb_cross_matches == _group(snap, "L", lb_cross)
    IN  IF _all_completed(lb_cross_matches) /\ ~has_round(snap, "L", lb_cross + 1)
            THEN Plan(pairs_todo("L", lb_cross + 1, _winners_in_order(lb_cross_matches)),
                      "loop", wb_round + 1, NULL, NULL)
            ELSE losers_loop_from(snap, wb_round + 1)

\* _advance_double_elim after _advance_single_elim, with the rows listed
double_elim_from(snap) ==
    LET wb_r1 == _group(snap, "W", 1)
    IN  IF wb_r1 = <<>> THEN Return
        ELSE IF 2 * Len(wb_r1) <= 2 THEN Return
        ELSE IF _all_completed(wb_r1) /\ ~has_round(snap, "L", 1)
                THEN Plan(pairs_todo("L", 1, _losers_in_order(wb_r1)), "loop", 2, NULL, NULL)
                ELSE losers_loop_from(snap, 2)

\* the call c goes on from the place it listed the rows
resume(c, snap) ==
    CASE c.cont = "se" -> single_elim_from(snap, c.r)
      [] c.cont = "de" -> double_elim_from(snap)
      [] c.cont = "loop" -> losers_loop_from(snap, c.r)
      [] c.cont = "lb_pure" -> lb_pure_from(snap, c.r)
      [] c.cont = "lb_final" -> lb_final_from(snap, c.wb_champ)
      [] c.cont = "reset" -> reset_from(snap, c.wb_champ, c.lb_champ)

\* the call has returned or raised: its locals are gone
Returned(c, raised) ==
    [Idle EXCEPT !.op = c.op, !.k = c.k, !.w = c.w, !.pc = "done", !.raised = raised]

\* the call enters advance
EnterAdvance(c) ==
    [c EXCEPT !.pc = "list", !.cont = "se", !.r = 1, !.l = NULL]

\* the call enters _maybe_update_event_status
EnterStatus(c) ==
    [Idle EXCEPT !.op = c.op, !.k = c.k, !.w = c.w, !.pc = "get_event"]

\* the call has no create_match left of the round it is creating
AfterRound(c) ==
    IF c.cont = "return"
        THEN IF c.after = "event_status" THEN EnterStatus(c) ELSE Returned(c, "none")
    ELSE [c EXCEPT !.pc = "list", !.todo = <<>>]

\* the call is past the create_match (and _set_bye_winner) at the head of todo
AfterMatch(c) ==
    IF Len(c.todo) = 1 THEN AfterRound(c) ELSE [c EXCEPT !.pc = "insert", !.todo = Tail(@)]

Quiet == \A p \in Procs : calls[p].pc = "idle"

\* a caller starts advance, or reports a match shown as Pending with one of
\* its occupants; call slots are taken in order
StartCall(p) ==
    /\ calls[p].pc = "idle"
    /\ matches # {}
    /\ \A q \in 1..(p - 1) : calls[q].pc # "idle"
    /\ \/ calls' = [calls EXCEPT ![p] = EnterAdvance([Idle EXCEPT !.op = "advance"])]
       \/ \E op \in {"record_result", "report_match"} :
          \E m \in matches : \E w \in {m.t1, m.t2} :
              /\ m.status = "pending" /\ w # NULL
              /\ calls' = [calls EXCEPT ![p] =
                              [Idle EXCEPT !.op = op, !.k = Key(m), !.w = w, !.pc = "fetch"]]
    /\ base' = IF Quiet THEN matches ELSE base
    /\ UNCHANGED <<event_status, arg, ret, fmt, teams, matches>>

\* SELECT * FROM event_match WHERE event_match_id=%s, and the tests on the row
FetchMatch(p) ==
    LET c == calls[p]
        found == fetch_match(matches, c.k)
        m == CHOOSE x \in found : TRUE
        missing == IF c.op = "record_result" THEN "BracketStateError" ELSE "MatchNotFoundError"
        invalid == IF c.op = "record_result" THEN "BracketStateError" ELSE "MatchStateError"
    IN  /\ c.pc = "fetch"
        /\ calls' = [calls EXCEPT ![p] =
              IF found = {} THEN Returned(c, missing)
              ELSE IF m.status = "completed"
                      THEN IF c.op = "record_result" THEN Returned(c, "none")
                           ELSE EnterAdvance(c)
              ELSE IF m.t2 = NULL
                      THEN IF c.op = "record_result"
                              THEN [c EXCEPT !.pc = "bye_result", !.w = m.t1]
                              ELSE Returned(c, invalid)
              ELSE IF c.w \notin {m.t1, m.t2} THEN Returned(c, invalid)
              ELSE [c EXCEPT !.pc = "update", !.l = IF c.w = m.t1 THEN m.t2 ELSE m.t1]]
        /\ UNCHANGED <<event_status, arg, ret, fmt, teams, matches, base>>

\* the UPDATE of the result: set_match_result in record_result, the
\* conditional UPDATE in report_match
UpdateMatch(p) ==
    LET c == calls[p]
    IN  /\ c.pc = "update"
        /\ matches' = IF c.op = "record_result"
                         THEN set_match_result(matches, c.k, c.w, c.l)
                         ELSE update_if_not_completed(matches, c.k, c.w, c.l)
        /\ calls' = [calls EXCEPT ![p] =
              [EnterAdvance(c) EXCEPT
                  !.after = IF c.op = "report_match" THEN "event_status" ELSE "return"]]
        /\ UNCHANGED <<event_status, arg, ret, fmt, teams, base>>

\* record_result on a BYE match: _set_bye_winner, then return
ByeResult(p) ==
    LET c == calls[p]
    IN  /\ c.pc = "bye_result"
        /\ matches' = _set_bye_winner(matches, c.k, c.w)
        /\ calls' = [calls EXCEPT ![p] = Returned([c EXCEPT !.w = NULL], "none")]
        /\ UNCHANGED <<event_status, arg, ret, fmt, teams, base>>

\* list_matches, and the computation on the rows up to the next statement
ListMatches(p) ==
    LET c == calls[p]
        plan == resume(c, matches)
        next == [c EXCEPT !.todo = plan.todo, !.cont = plan.cont, !.r = plan.r,
                          !.wb_champ = plan.wb_champ, !.lb_champ = plan.lb_champ]
    IN  /\ c.pc = "list"
        /\ calls' = [calls EXCEPT ![p] =
              IF plan.todo # <<>> THEN [next EXCEPT !.pc = "insert"] ELSE AfterRound(next)]
        /\ UNCHANGED <<event_status, arg, ret, fmt, teams, matches, base>>

\* create_match inside _safe_create_match: on IntegrityError the match is
\* skipped, its _set_bye_winner too
CreateMatch(p) ==
    LET c == calls[p]
        e == Head(c.todo)
        created == create_match(matches, e[1], e[2], e[3], e[4], e[5])
    IN  /\ c.pc = "insert"
        /\ matches' = created.ms
        /\ calls' = [calls EXCEPT ![p] =
              IF created.raised = "none" /\ e[5] = NULL THEN [c EXCEPT !.pc = "bye"]
              ELSE AfterMatch(c)]
        /\ UNCHANGED <<event_status, arg, ret, fmt, teams, base>>

\* _set_bye_winner inside _safe_create_match
SetByeWinner(p) ==
    LET c == calls[p]
        e == Head(c.todo)
    IN  /\ c.pc = "bye"
        /\ matches' = _set_bye_winner(matches, <<e[1], e[2], e[3]>>, e[4])
        /\ calls' = [calls EXCEPT ![p] = AfterMatch(c)]
        /\ UNCHANGED <<event_status, arg, ret, fmt, teams, base>>

\* get_event in _maybe_update_event_status: the status is read
GetEvent(p) ==
    LET c == calls[p]
    IN  /\ c.pc = "get_event"
        /\ calls' = [calls EXCEPT ![p] = [c EXCEPT !.pc = "list_status", !.status = event_status]]
        /\ UNCHANGED <<event_status, arg, ret, fmt, teams, matches, base>>

\* list_matches in _maybe_update_event_status, and the tests on the rows
ListForStatus(p) ==
    LET c == calls[p]
        status == activated(matches, c.status)
        done == is_complete(matches)
    IN  /\ c.pc = "list_status"
        /\ calls' = [calls EXCEPT ![p] =
              IF status # c.status
                  THEN [c EXCEPT !.pc = "set_active", !.status = status, !.is_complete = done]
              ELSE IF done /\ status # "completed"
                  THEN [c EXCEPT !.pc = "set_completed", !.is_complete = done]
              ELSE Returned(c, "none")]
        /\ UNCHANGED <<event_status, arg, ret, fmt, teams, matches, base>>

\* the UPDATE of event.status: set_event_status 'active', then or instead the
\* UPDATE to 'completed'
SetEventStatus(p) ==
    LET c == calls[p]
    IN  /\ c.pc \in {"set_active", "set_completed"}
        /\ event_status' = IF c.pc = "set_active" THEN "active" ELSE "completed"
        /\ calls' = [calls EXCEPT ![p] =
              IF c.pc = "set_active" /\ c.is_complete
                  THEN [c EXCEPT !.pc = "set_completed"]
                  ELSE Returned(c, "none")]
        /\ UNCHANGED <<arg, ret, fmt, teams, matches, base>>

\* a Pending match is reported for the better seed of its two occupants
ReportFavourite ==
    \E m \in matches :
        /\ m.status = "pending" /\ m.t2 # NULL
        /\ \E out \in {report_match(matches, Key(m), IF m.t1 < m.t2 THEN m.t1 ELSE m.t2)} :
              /\ matches' = out.ms
              /\ event_status' = report_match_status(matches, Key(m), out, event_status)
        /\ UNCHANGED <<arg, ret, fmt, teams, calls, base>>

\* The bracket is created and played to any point, one call at a time and the
\* better seed winning; then NumCalls calls overlap, reporting either occupant.
Prepare == Quiet /\ (CreateBracket \/ ReportFavourite)

ConcNext ==
    \/ Prepare
    \/ \E p \in Procs :
          \/ StartCall(p)
          \/ FetchMatch(p)
          \/ UpdateMatch(p)
          \/ ByeResult(p)
          \/ ListMatches(p)
          \/ CreateMatch(p)
          \/ SetByeWinner(p)
          \/ GetEvent(p)
          \/ ListForStatus(p)
          \/ SetEventStatus(p)

ConcSpec == Init /\ [][ConcNext]_vars

\* ------------------------------------------------------------------- claims

Rows(bracket, round_no) == {m \in matches : m.bracket = bracket /\ m.round_no = round_no}
RowAt(bracket, round_no, match_no) == fetch_match(matches, <<bracket, round_no, match_no>>)
AllDone(bracket, round_no) ==
    Rows(bracket, round_no) # {} /\ \A m \in Rows(bracket, round_no) : m.status = "completed"
BracketSize == next_power_of_two(Len(teams))
WinnersRounds == log2_int(BracketSize)
LastLosersRound == 2 * WinnersRounds - 2
Occupants(m) == {m.t1, m.t2} \ {NULL}

\* C1: in every reachable state of a single- or double-elimination event,
\* advance followed by advance again raises nothing and the second call
\* leaves exactly the match set the first one left.
C1_AdvanceIdempotent ==
    LET first == advance(matches)
        second == advance(first.ms)
    IN  /\ first.raised = "none"
        /\ second.raised = "none"
        /\ second.ms = first.ms

C1_Witness ==
    /\ fmt = "double_elim"
    /\ Rows("L", 2) # {}
    /\ \E m \in matches : m.status = "pending"
    /\ advance(advance(matches).ms).ms = matches

\* C2: reporting an already Completed match, through record_result or
\* report_match and with any winner argument, raises nothing and leaves the
\* row of that match (winner and loser included) as it was.
C2_ReReportKeepsResult ==
    \A m \in matches : m.status = "completed" =>
        \A w \in WinnerArgs :
            LET a == record_result(matches, Key(m), w)
                b == report_match(matches, Key(m), w)
            IN  /\ a.raised = "none" /\ m \in a.ms
                /\ b.raised = "none" /\ m \in b.ms

C2_Witness ==
    \E m \in matches :
        /\ m.status = "completed" /\ m.t2 # NULL /\ m.loser \in WinnerArgs
        /\ m \in record_result(matches, Key(m), m.loser).ms
        /\ m \in report_match(matches, Key(m), m.loser).ms
        /\ NoTeam \in WinnerArgs \ Occupants(m)

\* C3: reporting on a Pending non-BYE match a winner that is neither occupant
\* raises the service's validation error (BracketStateError from
\* record_result, MatchStateError from report_match) and leaves the whole
\* table as it was: the match stays Pending without winner or loser and no
\* match is created.
C3_InvalidWinnerRejected ==
    \A m \in matches : (m.status = "pending" /\ m.t2 # NULL) =>
        \A w \in WinnerArgs \ {m.t1, m.t2} :
            /\ record_result(matches, Key(m), w) = Outcome(matches, "BracketStateError")
            /\ report_match(matches, Key(m), w) = Outcome(matches, "MatchStateError")
            /\ m.winner = NULL /\ m.loser = NULL

C3_Witness ==
    \E m \in matches : \E w \in TeamIds \ {m.t1, m.t2} :
        /\ m.status = "pending" /\ m.t2 # NULL
        /\ report_match(matches, Key(m), w).raised = "MatchStateError"
        /\ record_result(matches, Key(m), w).raised = "BracketStateError"

\* C4: in double elimination the reset match GF-02 exists exactly when GF-01
\* is Completed and was won by the Losers-bracket champion (the winner of the
\* last Losers round); GF-02 holds the two entrants of GF-01, and the call
\* that reports GF-01 is the one that creates it, Pending.
C4_State ==
    fmt = "double_elim" =>
        /\ RowAt("GF", 1, 2) # {} <=>
              \E g \in RowAt("GF", 1, 1), l \in RowAt("L", LastLosersRound, 1) :
                  g.status = "completed" /\ l.status = "completed" /\ g.winner = l.winner
        /\ \A g2 \in RowAt("GF", 1, 2), g1 \in RowAt("GF", 1, 1) :
              g2.t1 = g1.t1 /\ g2.t2 = g1.t2

C4_Step ==
    (RowAt("GF", 1, 2) = {} /\ RowAt("GF", 1, 2)' # {}) =>
        /\ \A g2 \in RowAt("GF", 1, 2)' : g2.status = "pending"
        /\ \E g1 \in RowAt("GF", 1, 1) : g1.status = "pending"

C4_GrandFinalsReset == []C4_State /\ [][C4_Step]_vars

C4_Witness ==
    \E g2 \in RowAt("GF", 1, 2), g1 \in RowAt("GF", 1, 1) :
        g2.status = "pending" /\ g1.winner = g1.t2

\* C5: in double elimination with bracket size >= 4, GF-01 exists exactly when
\* the Winners Final and the last Losers cross round are both Completed; there
\* is one such row, with the Winners Final's winner in slot 1 and the last
\* Losers round's winner in slot 2.
C5_GrandFinalsCreated ==
    (fmt = "double_elim" /\ BracketSize >= 4) =>
        /\ RowAt("GF", 1, 1) # {} <=>
              (AllDone("W", WinnersRounds) /\ AllDone("L", LastLosersRound))
        /\ Cardinality(RowAt("GF", 1, 1)) <= 1
        /\ \A g \in RowAt("GF", 1, 1) :
              \E w \in RowAt("W", WinnersRounds, 1), l \in RowAt("L", LastLosersRound, 1) :
                  g.t1 = w.winner /\ g.t2 = l.winner

C5_Witness ==
    /\ BracketSize >= 8
    /\ \E g \in RowAt("GF", 1, 1) : g.status = "pending" /\ g.t1 # NULL /\ g.t2 # NULL

\* C6: whenever all matches of Winners round r are Completed and more than one
\* winner remains, round r+1 holds half as many matches and its match i pairs
\* the recorded winners of round-r matches 2i-1 and 2i, whatever the order in
\* which the round-r results came in; the final round has no successor.
C6_WinnersNextRound ==
    /\ \A r \in 1..(WinnersRounds - 1) : AllDone("W", r) =>
          /\ 2 * Cardinality(Rows("W", r + 1)) = Cardinality(Rows("W", r))
          /\ \A i \in 1..Cardinality(Rows("W", r + 1)) :
                \E m \in RowAt("W", r + 1, i) :
                \E a \in RowAt("W", r, 2 * i - 1), b \in RowAt("W", r, 2 * i) :
                    m.t1 = a.winner /\ m.t2 = b.winner /\ a.winner # NULL /\ b.winner # NULL
    /\ Rows("W", WinnersRounds + 1) = {}

C6_Witness ==
    /\ Cardinality(Rows("W", 2)) = 2
    /\ \E m \in RowAt("W", 3, 1) : m.status = "pending"

\* C7 as stated: with 3 entrants in single elimination, as soon as the bracket
\* exists a Round-2 match holds the BYE recipient, also while the other
\* Round-1 match is unreported.
C7_Round2RightAfterCreate ==
    (fmt = "single_elim" /\ Len(teams) = 3 /\ matches # {}) =>
        \E b \in Rows("W", 1), m \in Rows("W", 2) : b.t2 = NULL /\ b.t1 \in {m.t1, m.t2}

\* C7 amended: with 3 entrants in single elimination the BYE Round-1 match is
\* Completed from creation on, won by its occupant with no loser; Round 2
\* exists exactly when the other Round-1 match is Completed, and then holds the
\* BYE recipient in slot 1 and that match's winner in slot 2.
C7_Round2AfterLastReport ==
    (fmt = "single_elim" /\ Len(teams) = 3 /\ matches # {}) =>
        \E b \in RowAt("W", 1, 1), o \in RowAt("W", 1, 2) :
            /\ b.t2 = NULL /\ b.status = "completed" /\ b.winner = b.t1 /\ b.loser = NULL
            /\ o.t2 # NULL
            /\ Rows("W", 2) # {} <=> o.status = "completed"
            /\ \A m \in Rows("W", 2) : m.match_no = 1 /\ m.t1 = b.t1 /\ m.t2 = o.winner

C7_Witness ==
    /\ fmt = "single_elim" /\ Len(teams) = 3
    /\ \E b \in RowAt("W", 1, 1), o \in RowAt("W", 1, 2) :
          b.status = "completed" /\ b.t2 = NULL /\ o.status = "pending"
    /\ Rows("W", 2) = {}

\* C8: when every Pending match is eventually reported by one of its
\* occupants, the tournament reaches and keeps a terminal state: the bracket
\* exists, no match is Pending, advance creates nothing, and in single
\* elimination the table holds bracketSize - 1 matches.
Terminal ==
    /\ matches # {}
    /\ \A m \in matches : m.status = "completed"
    /\ advance(matches) = Outcome(matches, "none")
    /\ fmt = "single_elim" => Cardinality(matches) = BracketSize - 1

C8_ReachesTerminal == <>[]Terminal

C8_Witness == Terminal /\ fmt = "single_elim" /\ Len(teams) = 4 /\ Cardinality(matches) = 3

\* C9: a match exists only when what feeds it is Completed: Winners round
\* r+1 needs Winners round r; Losers round 1 needs Winners round 1; a Losers
\* cross round 2(w-1) needs Winners round w and Losers round 2(w-1)-1; a
\* Losers pure round needs the cross round before it; a Grand Finals match
\* needs the Winners Final and the last Losers round; and no Losers round
\* exists while the one before it is missing.
C9_PrerequisitesCompleted ==
    /\ \A r \in 1..WinnersRounds : Rows("W", r + 1) # {} => AllDone("W", r)
    /\ Rows("L", 1) # {} => AllDone("W", 1)
    /\ \A w \in 2..WinnersRounds : Rows("L", 2 * (w - 1)) # {} =>
          (AllDone("W", w) /\ AllDone("L", 2 * (w - 1) - 1))
    /\ \A w \in 2..WinnersRounds : Rows("L", 2 * (w - 1) + 1) # {} =>
          AllDone("L", 2 * (w - 1))
    /\ Rows("GF", 1) # {} => (AllDone("W", WinnersRounds) /\ AllDone("L", LastLosersRound))
    /\ \A m \in matches : (m.bracket = "L" /\ m.round_no > 1) =>
          Rows("L", m.round_no - 1) # {}

C9_Witness ==
    /\ Rows("L", 3) # {} /\ Rows("L", 4) # {}
    /\ \E m \in Rows("L", 4) : m.status = "pending"

\* what a call leaves of a table when nothing overlaps it
run_alone(c, ms) ==
    CASE c.op = "advance" -> advance(ms).ms
      [] c.op = "record_result" -> record_result(ms, c.k, c.w).ms
      [] c.op = "report_match" -> report_match(ms, c.k, c.w).ms

\* the tables the calls S leave when run from ms one after another, in every
\* order
RECURSIVE SerialTables(_, _)
SerialTables(ms, S) ==
    IF S = {} THEN {ms}
    ELSE UNION {SerialTables(run_alone(calls[p], ms), S \ {p}) : p \in S}

Started == {p \in Procs : calls[p].pc # "idle"}
AllReturned == Started # {} /\ \A p \in Started : calls[p].pc = "done"

\* A call that nothing overlaps leaves, statement by statement, the table the
\* operator of the call gives for the table it started from.
AloneAsWhole ==
    \A p \in Procs :
        (Started = {p} /\ calls[p].pc = "done") => matches = run_alone(calls[p], base)

\* the overlapping calls all came through StatsService.report_match or advance
ThroughStatsService == \A p \in Started : calls[p].op # "record_result"

\* C10: for overlapping advance and report calls, interleaved at every
\* statement, no call raises because another call created a match first, and
\* once all calls have returned the table is one that the same calls leave
\* when run one after another in some order.
C10_OverlapSerializable ==
    /\ \A p \in Procs : calls[p].raised # "IntegrityError"
    /\ AllReturned => matches \in SerialTables(base, Started)

\* the part of C10 about duplicates alone
C10_NoDuplicateError == \A p \in Procs : calls[p].raised # "IntegrityError"

\* C10 for the calls the bot itself makes: report_match and advance only
C10_ReportMatchSerializable ==
    (AllReturned /\ ThroughStatsService) => matches \in SerialTables(base, Started)

\* two calls have overlapped, both have returned, and the table changed
C10_Witness ==
    /\ Cardinality(Started) = 2 /\ AllReturned
    /\ matches # base

\* every call slot holds a report of one and the same match, and the winners
\* reported differ
SameMatchReports ==
    /\ Started = Procs
    /\ \A p \in Procs : calls[p].op \in {"record_result", "report_match"}
    /\ \A p, q \in Procs : calls[p].k = calls[q].k
    /\ \E p, q \in Procs : calls[p].w # calls[q].w

\* the round the winner of m goes to, and the round its loser goes to
WinnerRound(m) ==
    IF m.bracket = "W" /\ m.round_no < WinnersRounds THEN <<"W", m.round_no + 1>>
    ELSE IF m.bracket = "L" /\ m.round_no < LastLosersRound THEN <<"L", m.round_no + 1>>
    ELSE <<"GF", 1>>
LoserRound(m) == <<"L", IF m.round_no = 1 THEN 1 ELSE 2 * m.round_no - 2>>

\* once the reports have returned, the rounds fed by the match hold its
\* recorded winner and, for a Winners match, its recorded loser
C11_SuccessorsHoldResult ==
    (SameMatchReports /\ AllReturned) =>
        \A m \in fetch_match(matches, calls[1].k) :
            /\ m.status = "completed" /\ m.winner \in Occupants(m)
            /\ m.loser \in Occupants(m) \ {m.winner}
            /\ Rows(WinnerRound(m)[1], WinnerRound(m)[2]) # {} =>
                  \E s \in Rows(WinnerRound(m)[1], WinnerRound(m)[2]) :
                      m.winner \in Occupants(s)
            /\ (m.bracket = "W" /\ Rows("L", LoserRound(m)[2]) # {}) =>
                  \E s \in Rows("L", LoserRound(m)[2]) : m.loser \in Occupants(s)

\* a Completed row stays as it is
C11_ResultKept ==
    SameMatchReports => \A m \in matches : m.status = "completed" => m \in matches'

\* C11: when two reports of the same Pending match, for different winners,
\* overlap, the match behaves as under an atomic conditional update: the
\* winner and loser recorded when it first became Completed never change, and
\* the matches created from it hold that winner (in the Losers bracket, that
\* loser).
C11_AtomicConditionalUpdate == []C11_SuccessorsHoldResult /\ [][C11_ResultKept]_vars

\* C11 for reports that came through StatsService.report_match, whose UPDATE
\* carries the condition on the status
C11_ViaReportMatch ==
    [](ThroughStatsService => C11_SuccessorsHoldResult)
        /\ [][ThroughStatsService => C11_ResultKept]_vars

\* two reports of one match for different winners have both been through
\* their UPDATE and have returned, and a match created from it exists
C11_Witness ==
    /\ SameMatchReports /\ AllReturned
    /\ \A p \in Procs : calls[p].raised = "none"
    /\ \E m \in fetch_match(matches, calls[1].k) :
          m.bracket = "W" /\ Rows("W", m.round_no + 1) # {}

\* ------------------------------------------------------------ partial failure
\* A report whose UPDATE is committed and whose call then fails before its
\* advance pass: each statement is its own transaction, so the result stays.
ResultWithoutAdvance ==
    \E m \in matches : \E w \in {m.t1, m.t2} :
        /\ m.status = "pending" /\ m.t2 # NULL
        /\ matches' = set_match_result(matches, Key(m), w, IF w = m.t1 THEN m.t2 ELSE m.t1)
        /\ UNCHANGED <<event_status, arg, ret, fmt, teams, calls, base>>

FailNext == Next \/ ResultWithoutAdvance

FailSpec == Init /\ [][FailNext]_vars

\* some match that the Completed results unlock is missing
AdvanceOwed == advance(matches).ms # matches

\* C12: after a report of an already Completed match, through record_result or
\* report_match and with any winner argument, nothing is left for advance to
\* create: the call has re-run the advance pass that a failed earlier call
\* left out.
C12_ReReportAdvances ==
    \A m \in matches : m.status = "completed" =>
        \A w \in WinnerArgs :
            LET a == record_result(matches, Key(m), w)
                b == report_match(matches, Key(m), w)
            IN  /\ a.raised = "none" /\ advance(a.ms).ms = a.ms
                /\ b.raised = "none" /\ advance(b.ms).ms = b.ms

\* C12 for StatsService.report_match alone
C12_ViaReportMatch ==
    \A m \in matches : m.status = "completed" =>
        \A w \in WinnerArgs :
            LET b == report_match(matches, Key(m), w)
            IN  b.raised = "none" /\ advance(b.ms).ms = b.ms

\* a result is in the table, the matches it unlocks are not, and a second
\* report of that match through report_match creates them
C12_Witness ==
    /\ AdvanceOwed
    /\ \E m \in matches :
          /\ m.status = "completed" /\ m.t2 # NULL
          /\ report_match(matches, Key(m), m.winner).ms # matches

\* a BYE match as _set_bye_winner leaves it
ByeResolved(m) == m.status = "completed" /\ m.winner = m.t1 /\ m.loser = NULL

\* call p stands between the INSERT of m and its _set_bye_winner
Creating(p, m) ==
    calls[p].pc = "bye" /\ SubSeq(Head(calls[p].todo), 1, 3) = Key(m)

\* C13: a match with a BYE in its second slot is Completed, won by its slot-1
\* occupant and without loser whenever a call other than the one creating it
\* is in flight and so can read it, and whenever no call is creating it.
C13_ByeResolvedWhenObservable ==
    \A m \in matches : m.t2 = NULL =>
        \/ ByeResolved(m)
        \/ \A q \in Procs : Creating(q, m) \/ calls[q].pc \in {"idle", "done"}

\* C13 for calls that run one at a time
C13_ByeResolvedBetweenCalls == \A m \in matches : m.t2 = NULL => ByeResolved(m)

\* a call has read a BYE match as Pending while another call stood between
\* its INSERT and its _set_bye_winner
C13_Witness ==
    \E p, q \in Procs :
        /\ calls[q].pc = "bye_result"
        /\ \E m \in fetch_match(matches, calls[q].k) : m.t2 = NULL /\ Creating(p, m)

IsPowerOfTwo(n) == next_power_of_two(n) = n

\* C14 as stated: a match whose second slot is a BYE is in round 1 of the
\* Winners bracket.
C14_ByeOnlyInWinnersRound1 ==
    \A m \in matches : m.t2 = NULL => (m.bracket = "W" /\ m.round_no = 1)

\* C14 amended: the first slot of a match is never a BYE; a match whose second
\* slot is a BYE is in round 1 of the Winners bracket or, in a double
\* elimination whose entrant count is no power of two, in a Losers round;
\* no Grand Finals match and no Winners match after round 1 has a BYE slot.
C14_ByeOnlyInRound1OrLosers ==
    \A m \in matches :
        /\ m.t1 # NULL
        /\ m.t2 = NULL =>
              \/ m.bracket = "W" /\ m.round_no = 1 /\ ~IsPowerOfTwo(Len(teams))
              \/ m.bracket = "L" /\ fmt = "double_elim" /\ ~IsPowerOfTwo(Len(teams))

\* a Losers cross round holds a BYE match made from a Winners loser that no
\* Losers winner was left to meet
C14_Witness ==
    \E m \in matches, w \in Rows("W", 2) :
        /\ m.bracket = "L" /\ m.round_no = 2 /\ m.t2 = NULL
        /\ w.loser = m.t1

\* C15: a Completed match has one of its occupants as winner; if it is no BYE
\* match its loser is the other occupant, if it is one its loser is null; a
\* Pending match has neither winner nor loser.
C15_WinnerAndLoserAreOccupants ==
    \A m \in matches :
        /\ m.status \in {"pending", "completed"}
        /\ m.status = "completed" =>
              /\ m.winner \in Occupants(m)
              /\ m.t2 # NULL => (m.loser \in Occupants(m) /\ m.loser # m.winner)
              /\ m.t2 = NULL => m.loser = NULL
        /\ m.status = "pending" => (m.winner = NULL /\ m.loser = NULL)

\* the table holds a resolved BYE match, a reported match won from the second
\* slot, and a Pending match
C15_Witness ==
    \E b, c, p \in matches :
        /\ b.t2 = NULL /\ b.status = "completed" /\ b.loser = NULL
        /\ c.t2 # NULL /\ c.status = "completed" /\ c.winner = c.t2 /\ c.loser = c.t1
        /\ p.status = "pending"

\* C16: a report of a match whose second slot is a BYE, with any winner
\* argument and whatever the status of the match, raises the service's
\* validation error (BracketStateError from record_result, MatchStateError
\* from report_match) and leaves the table as it was.
C16_ByeReportRejected ==
    \A m \in matches : m.t2 = NULL =>
        \A w \in WinnerArgs :
            /\ record_result(matches, Key(m), w) = Outcome(matches, "BracketStateError")
            /\ report_match(matches, Key(m), w) = Outcome(matches, "MatchStateError")

\* the part of C16 that holds when calls run one at a time: the report of a
\* BYE match changes no match
C16_ByeReportChangesNothing ==
    \A m \in matches : m.t2 = NULL =>
        \A w \in WinnerArgs :
            /\ record_result(matches, Key(m), w).ms = matches
            /\ report_match(matches, Key(m), w).ms = matches

\* a BYE match is reported, for its occupant and for a team that is not in
\* it, and neither reporter raises
C16_Witness ==
    \E m \in matches : \E w \in TeamIds \ {m.t1} :
        /\ m.t2 = NULL
        /\ record_result(matches, Key(m), m.t1).raised = "none"
        /\ report_match(matches, Key(m), m.t1).raised = "none"
        /\ report_match(matches, Key(m), w).raised = "none"

\* ------------------------------------------------------ events not set up
\* Events as create_bracket may find them: no team or up to MaxSetupTeams
\* teams, each seed absent (NULL) or any number up to MaxSeed, and a format
\* column that holds a supported format or another string.
MaxSetupTeams == 3
MaxSeed == 4

\* a format value other than single_elim and double_elim
UnsupportedFormat == "round_robin"

RECURSIVE SeedLists(_)
SeedLists(n) ==
    IF n = 0 THEN {<<>>}
    ELSE {Append(t, s) : t \in SeedLists(n - 1), s \in {NULL} \cup 1..MaxSeed}

SetupInit ==
    /\ fmt \in Formats \cup {UnsupportedFormat}
    /\ teams \in UNION {SeedLists(n) : n \in 0..MaxSetupTeams}
    /\ matches = {}
    /\ calls = [p \in Procs |-> Idle]
    /\ base = {}
    /\ arg = <<>>
    /\ ret = NoCall
    /\ event_status = "locked"

SetupSpec == SetupInit /\ [][Next]_vars

\* C17: a create_bracket that raises leaves the table as it was, whatever
\* made it raise (a match that exists, no team, a seed absent, duplicated or
\* out of 1..N, a format that is neither single_elim nor double_elim): no
\* round-1 match is left behind.
C17_FailedCreateLeavesNothing ==
    LET out == create_bracket(matches)
    IN  /\ out.raised # "none" => out.ms = matches
        /\ matches # {} => out.raised = "BracketAlreadyExistsError"
        /\ (teams = <<>> \/ ~seeds_valid \/ fmt \notin Formats) => out.raised # "none"

\* the errors of C17 by kind: BracketStateError for every event that is not
\* set up
C17_SetupErrorKinds ==
    (matches = {} /\ (teams = <<>> \/ ~seeds_valid \/ fmt \notin Formats)) =>
        create_bracket(matches).raised = "BracketStateError"

\* C17 for events whose format is single_elim or double_elim
C17_SupportedFormat == fmt \in Formats => C17_FailedCreateLeavesNothing

\* create_bracket has raised on the format and round 1 is in the table
C17_Witness ==
    /\ fmt \notin Formats
    /\ create_bracket({}).raised = "BracketStateError"
    /\ matches = create_bracket({}).ms /\ matches # {}

\* C18: the table a create_bracket or a report leaves is a fixed point of
\* advance: one more advance raises nothing, creates no match and completes
\* no match, also when the pass inside the call created BYE matches and
\* resolved them.
C18_AdvanceAtFixedPoint == advance(matches) = Outcome(matches, "none")

\* a report has created a Losers round with a BYE match, resolved it, and
\* created the round after it in the same call
C18_Witness ==
    /\ \E m \in Rows("L", 2) : m.t2 = NULL /\ m.status = "completed"
    /\ \E m \in Rows("L", 2) : m.t2 # NULL /\ m.status = "pending"
    /\ advance(matches).ms = matches

\* ---------------------------------------------------------------- match codes
\* A str is the sequence of its characters.
MaxCodeRound == 11
MaxCodeMatch == 101

DigitChars == <<"0", "1", "2", "3", "4", "5", "6", "7", "8", "9">>

\* str(n) of an int n >= 0
RECURSIVE str(_)
str(n) ==
    IF n < 10 THEN <<DigitChars[n + 1]>>
    ELSE str(n \div 10) \o <<DigitChars[(n % 10) + 1]>>

\* the format specification 02d
pad02(n) == IF n < 10 THEN <<"0">> \o str(n) ELSE str(n)

\* the characters of a bracket name
chars(bracket) ==
    CASE bracket = "GF" -> <<"G", "F">>
      [] bracket = "gf" -> <<"g", "f">>
      [] OTHER -> <<bracket>>

UpperChar(c) ==
    CASE c = "w" -> "W"
      [] c = "l" -> "L"
      [] c = "g" -> "G"
      [] c = "f" -> "F"
      [] OTHER -> c

LowerChar(c) ==
    CASE c = "W" -> "w"
      [] c = "L" -> "l"
      [] c = "G" -> "g"
      [] c = "F" -> "f"
      [] OTHER -> c

\* str.upper and str.lower, on the letters a code can hold
upper(text) == [i \in 1..Len(text) |-> UpperChar(text[i])]
lower(text) == [i \in 1..Len(text) |-> LowerChar(text[i])]

\* str.strip
RECURSIVE strip(_)
strip(text) ==
    IF text = <<>> THEN text
    ELSE IF Head(text) = " " THEN strip(Tail(text))
    ELSE IF text[Len(text)] = " " THEN strip(SubSeq(text, 1, Len(text) - 1))
    ELSE text

\* domain.models.match_code
match_code(bracket, round_no, match_no) ==
    LET b == upper(chars(bracket))
    IN  IF b = <<"G", "F">> THEN <<"G", "F", "-">> \o pad02(match_no)
        ELSE b \o str(round_no) \o <<"-">> \o pad02(match_no)

\* the code _safe_create_match stores in the metadata of the row
metadata_code(bracket, round_no, match_no) ==
    IF bracket \in {"W", "L"} THEN chars(bracket) \o str(round_no) \o <<"-">> \o pad02(match_no)
    ELSE <<"G", "F", "-">> \o pad02(match_no)

\* \d+ matches the whole of text
IsDigits(text) ==
    text # <<>> /\ \A i \in 1..Len(text) : \E d \in 1..10 : DigitChars[d] = text[i]

\* int(text) of a text of digits
RECURSIVE int(_)
int(text) ==
    IF text = <<>> THEN 0
    ELSE 10 * int(SubSeq(text, 1, Len(text) - 1))
            + (CHOOSE d \in 0..9 : DigitChars[d + 1] = text[Len(text)])

\* the outcome of parse_match_code: the triple it returns, the exception it raised
Parsed(bracket, round_no, match_no) ==
    [ref |-> <<bracket, round_no, match_no>>, raised |-> "none"]
Rejected == [ref |-> <<>>, raised |-> "BracketStateError"]

\* the positions of text at which MATCH_CODE_RE can match its "-"
DashAt(text) ==
    {i \in 2..(Len(text) - 1) :
        /\ text[i] = "-"
        /\ IsDigits(SubSeq(text, i + 1, Len(text)))
        /\ \/ i = 3 /\ text[1] = "G" /\ text[2] = "F"
           \/ text[1] \in {"W", "L"} /\ IsDigits(SubSeq(text, 2, i - 1))}

\* Seeded fault: the code is matched as it is given, upper case only.
parse_match_code_as_given(code) ==
    LET c == strip(code)
    IN  IF DashAt(c) = {} THEN Rejected
        ELSE LET i == CHOOSE j \in DashAt(c) : TRUE
                 gf == c[1] = "G"
                 match_no == int(SubSeq(c, i + 1, Len(c)))
                 round_no == int(SubSeq(c, 2, i - 1))
             IN  IF match_no < 1 THEN Rejected
                 ELSE IF gf THEN Parsed("GF", 1, match_no)
                 ELSE IF round_no < 1 THEN Rejected
                 ELSE Parsed(c[1], round_no, match_no)

\* parse_match_code: MATCH_CODE_RE = ^(?:(GF)|([WL])(\d+))-(\d+)$ on the
\* stripped, upper-cased code
parse_match_code(code) ==
    LET c == upper(strip(code))
    IN  IF DashAt(c) = {} THEN Rejected
        ELSE LET i == CHOOSE j \in DashAt(c) : TRUE
                 gf == c[1] = "G"
                 match_no == int(SubSeq(c, i + 1, Len(c)))
                 round_no == int(SubSeq(c, 2, i - 1))
             IN  IF match_no < 1 THEN Rejected
                 ELSE IF gf THEN Parsed("GF", 1, match_no)
                 ELSE IF round_no < 1 THEN Rejected
                 ELSE Parsed(c[1], round_no, match_no)

\* the triples the engine gives a match: Grand Finals matches have round 1
MatchRefs ==
    {<<b, r, n>> : b \in {"W", "L"}, r \in 1..MaxCodeRound, n \in 1..MaxCodeMatch}
        \cup {<<"GF", 1, n>> : n \in 1..MaxCodeMatch}

CodeInit ==
    /\ arg \in MatchRefs
    /\ ret = NoCall
    /\ event_status = "locked"
    /\ fmt = "double_elim" /\ teams = <<>> /\ matches = {}
    /\ calls = [p \in Procs |-> Idle] /\ base = {}

\* the triple is encoded, by either encoder, and the code typed as it is or
\* in lower case
Encode ==
    /\ ret.step = "none"
    /\ \E code \in {match_code(arg[1], arg[2], arg[3]), metadata_code(arg[1], arg[2], arg[3])} :
       \E typed \in {code, lower(code)} :
           ret' = [step |-> "encoded", code |-> typed]
    /\ UNCHANGED <<event_status, arg, fmt, teams, matches, calls, base>>

Decode ==
    /\ ret.step = "encoded"
    /\ ret' = [step |-> "decoded", code |-> ret.code, parsed |-> parse_match_code(ret.code)]
    /\ UNCHANGED <<event_status, arg, fmt, teams, matches, calls, base>>

CodeNext == Encode \/ Decode

CodeSpec == CodeInit /\ [][CodeNext]_vars

\* C19: the code of a triple (bracket, round, match number) the engine can
\* give a match, decoded by parse_match_code, is that triple again, with no
\* error, also when the code is given in lower case.
C19_CodeRoundTrip == ret.step = "decoded" => ret.parsed = Parsed(arg[1], arg[2], arg[3])

\* a lower-case code with a two-digit round and a three-digit match number, and
\* a lower-case Grand Finals code, have been decoded
C19_Witness ==
    /\ ret.step = "decoded" /\ ret.parsed.raised = "none"
    /\ \/ ret.code = <<"l", "1", "0", "-", "1", "0", "0">>
       \/ ret.code = <<"g", "f", "-", "0", "2">>

\* ------------------------------------------------------------- bracket size
MaxSize == 64

SizeInit ==
    /\ arg \in 0..MaxSize
    /\ ret = NoCall
    /\ event_status = "locked"
    /\ fmt = "double_elim" /\ teams = <<>> /\ matches = {}
    /\ calls = [p \in Procs |-> Idle] /\ base = {}

NextPowerOfTwo ==
    /\ ret.step = "none"
    /\ ret' = [step |-> "returned", value |-> next_power_of_two(arg)]
    /\ UNCHANGED <<event_status, arg, fmt, teams, matches, calls, base>>

SizeSpec == SizeInit /\ [][NextPowerOfTwo]_vars

PowersOfTwo == {2 ^ k : k \in 0..(log2_int(MaxSize) + 1)}

\* v is the smallest power of two that is at least lo
SmallestPowerOfTwoFrom(v, lo) ==
    v \in PowersOfTwo /\ v >= lo /\ \A q \in PowersOfTwo : q >= lo => q >= v

\* C20: next_power_of_two(n) is the smallest power of two that is at least
\* max(n, 2): 2 for n = 0 and n = 1, and never below 2.
C20_SmallestPowerOfTwoFromTwo ==
    ret.step = "returned" =>
        /\ SmallestPowerOfTwoFrom(ret.value, Max(arg, 2))
        /\ arg \in {0, 1} => ret.value = 2
        /\ ret.value >= 2

\* C20 for n >= 2: the smallest power of two that is at least n
C20_FromTwoEntrants ==
    (ret.step = "returned" /\ arg >= 2) => SmallestPowerOfTwoFrom(ret.value, arg)

\* the bracket size create_bracket computes for an event it accepts
C20_BracketSizeAtLeastTwo ==
    (teams # <<>> /\ seeds_valid) => next_power_of_two(Len(teams)) >= 2

\* next_power_of_two has returned for one entrant
C20_Witness == ret.step = "returned" /\ arg = 1 /\ ret.value = 1

\* ------------------------------------------------------------ seed placement
\* Single-elimination events with a full bracket of each of the sizes below,
\* played through report_match with every outcome of every match.
SeededSizes == {4, 8, 16}

SeedInit ==
    /\ fmt = "single_elim"
    /\ teams \in {[i \in 1..n |-> i] : n \in SeededSizes}
    /\ matches = {}
    /\ calls = [p \in Procs |-> Idle]
    /\ base = {}
    /\ arg = <<>>
    /\ ret = NoCall
    /\ event_status = "locked"

SeedNext == CreateBracket \/ ReportPending

SeedSpec == SeedInit /\ [][SeedNext]_vars

\* the match holds both teams
Meet(m, a, b) == {m.t1, m.t2} = {seed_to_id(a), seed_to_id(b)}

\* C21: in single elimination with bracket size 4, 8 or 16, whatever the
\* outcomes reported, seeds 1 and 2 are not together in a match before the
\* final round, and seed 1 is not with seed 3 or seed 4 in a match before the
\* semifinal round.
C21_TopSeedsKeptApart ==
    \A m \in matches :
        /\ m.round_no < WinnersRounds => ~Meet(m, 1, 2)
        /\ m.round_no < WinnersRounds - 1 => (~Meet(m, 1, 3) /\ ~Meet(m, 1, 4))

\* in a bracket of 16 seeds 1 and 4 meet in the semifinal and seed 2 has
\* reached the final
C21_Witness ==
    /\ Len(teams) = 16
    /\ \E m \in Rows("W", 3) : Meet(m, 1, 4)
    /\ \E m \in Rows("W", 4) : m.t2 = seed_to_id(2)

\* ------------------------------------------------------------------ round 1
\* Events of either format with seeds 1..N, on which create_bracket is called.
MaxPairingTeams == 33

PairingInit ==
    /\ fmt \in Formats
    /\ teams \in {[i \in 1..n |-> i] : n \in 2..MaxPairingTeams}
    /\ matches = {}
    /\ calls = [p \in Procs |-> Idle]
    /\ base = {}
    /\ arg = <<>>
    /\ ret = NoCall
    /\ event_status = "locked"

PairingSpec == PairingInit /\ [][CreateBracket]_vars

\* C22: with seeds 1..N, N >= 2, create_bracket raises nothing and leaves
\* bracket_size / 2 matches in Winners round 1, numbered from 1; every team is
\* in exactly one slot of them; slot 1 holds a team, and slot 2 is a BYE
\* exactly when the seed placed against slot 1 (bracket_size + 1 - seed1) is
\* above N.
C22_RoundOnePairing ==
    /\ create_bracket({}).raised = "none"
    /\ matches # {} =>
          /\ {m.match_no : m \in Rows("W", 1)} = 1..(BracketSize \div 2)
          /\ Cardinality(Rows("W", 1)) = BracketSize \div 2
          /\ \A t \in TeamIds :
                Cardinality({m \in Rows("W", 1) : m.t1 = t}) +
                Cardinality({m \in Rows("W", 1) : m.t2 = t}) = 1
          /\ \A m \in Rows("W", 1) :
                /\ m.t1 \in TeamIds
                /\ m.t2 \in TeamIds \cup {NULL}
                /\ m.t2 = NULL <=> BracketSize + 1 - m.t1 > Len(teams)
                /\ m.t2 # NULL => m.t2 = seed_to_id(BracketSize + 1 - m.t1)

\* a bracket of 32 has been created for 17 teams: 15 BYE matches, one match
\* played
C22_Witness ==
    /\ Len(teams) = 17
    /\ Cardinality({m \in Rows("W", 1) : m.t2 = NULL}) = 15
    /\ \E m \in Rows("W", 1) : m.t1 = seed_to_id(16) /\ m.t2 = seed_to_id(17)

\* C23: a Losers or Grand Finals match exists only in a double elimination
\* with bracket size >= 4; a Losers match has a round in 1..2(k-1), where
\* bracket size = 2^k; the Losers rounds present are 1..r for some r, and
\* once the Grand Finals exist they are all of 1..2(k-1).
C23_LosersBracketExtent ==
    /\ \A m \in matches : m.bracket \in {"L", "GF"} =>
          (fmt = "double_elim" /\ BracketSize >= 4)
    /\ \A m \in matches : m.bracket = "L" =>
          /\ m.round_no \in 1..LastLosersRound
          /\ \A r \in 1..m.round_no : Rows("L", r) # {}
    /\ Rows("GF", 1) # {} => \A r \in 1..LastLosersRound : Rows("L", r) # {}

\* the Losers bracket of a bracket of 8 has its four rounds and the Grand
\* Finals exist
C23_Witness ==
    /\ BracketSize = 8 /\ LastLosersRound = 4
    /\ \A r \in 1..4 : Rows("L", r) # {}
    /\ Rows("GF", 1) # {}

\* a double elimination of two entrants and a single elimination have been
\* played to the end
C23_NoLosersWitness ==
    /\ matches # {} /\ \A m \in matches : m.status = "completed"
    /\ fmt = "single_elim" \/ Len(teams) = 2

\* the cross round fed by Winners round w, and whether its match i is the
\* i-th winner of the Losers round before it against the loser of the i-th
\* match of Winners round w, a missing side padded with a BYE in slot 2
CrossRound(w) == 2 * (w - 1)
CrossMatchAsPaired(w, i) ==
    \E m \in RowAt("L", CrossRound(w), i) :
        LET left == RowAt("L", CrossRound(w) - 1, i)
            right == RowAt("W", w, i)
        IN  /\ left # {} /\ right # {} =>
                 \E a \in left, b \in right : m.t1 = a.winner /\ m.t2 = b.loser
            /\ left # {} /\ right = {} => \E a \in left : m.t1 = a.winner /\ m.t2 = NULL
            /\ left = {} /\ right # {} => \E b \in right : m.t1 = b.loser /\ m.t2 = NULL
            /\ m.t1 # NULL

\* C24: every Losers cross round 2(w-1), w from 2 to the Winners Final, holds
\* one match for each position of the longer of its two sides, and match i
\* pairs the i-th winner of Losers round 2(w-1)-1, in slot 1, with the loser
\* of the i-th match of Winners round w, in slot 2; a position one side lacks
\* gets a BYE in slot 2 and the entrant of the other side in slot 1.
C24_CrossRoundPairing ==
    \A w \in 2..WinnersRounds : Rows("L", CrossRound(w)) # {} =>
        LET longer == Max(Cardinality(Rows("L", CrossRound(w) - 1)),
                          Cardinality(Rows("W", w)))
        IN  /\ {m.match_no : m \in Rows("L", CrossRound(w))} = 1..longer
            /\ Cardinality(Rows("L", CrossRound(w))) = longer
            /\ \A i \in 1..longer : CrossMatchAsPaired(w, i)

\* in a bracket of 8 for 5 entrants the cross round L2 holds a full pair and a
\* padded one, and the last cross round L4 exists
C24_Witness ==
    /\ Len(teams) = 5
    /\ \E m \in RowAt("L", 2, 1) : m.t2 # NULL
    /\ \E m \in RowAt("L", 2, 2) : m.t2 = NULL
    /\ Rows("L", 4) # {}

\* ------------------------------------------------------- lookup by match code
\* str.lstrip("-")
RECURSIVE lstrip_dash(_)
lstrip_dash(text) ==
    IF text # <<>> /\ Head(text) = "-" THEN lstrip_dash(Tail(text)) ELSE text

\* the positions of "-" in text
Dashes(text) == {i \in 1..Len(text) : text[i] = "-"}

\* the value get_match_by_code returns without a query
NoMatch == <<>>

\* rest.split("-", 1) into round_s and match_s, and int of both; a text
\* without "-" or a part that is no number ends in the except branch
lookup_rest(bracket, rest) ==
    IF Dashes(rest) = {} THEN NoMatch
    ELSE LET i == CHOOSE j \in Dashes(rest) : \A h \in Dashes(rest) : j <= h
             round_s == SubSeq(rest, 1, i - 1)
             match_s == SubSeq(rest, i + 1, Len(rest))
         IN  IF IsDigits(round_s) /\ IsDigits(match_s)
                THEN <<bracket, int(round_s), int(match_s)>>
                ELSE NoMatch

\* EventRepo.get_match_by_code up to its query: the (bracket, round_no,
\* match_no) the row is selected by, or NoMatch when it returns None before
lookup_key(match_code_text) ==
    LET code == upper(strip(match_code_text))
    IN  IF code = <<>> THEN NoMatch
        ELSE IF Len(code) >= 2 /\ code[1] = "G" /\ code[2] = "F"
                THEN lookup_rest("GF", lstrip_dash(SubSeq(code, 3, Len(code))))
        ELSE lookup_rest(code[1], lstrip_dash(Tail(code)))

\* EventRepo.get_match_by_code: the rows the query selects
get_match_by_code(ms, match_code_text) ==
    IF lookup_key(match_code_text) = NoMatch THEN {}
    ELSE fetch_match(ms, lookup_key(match_code_text))

\* the report command resolves the code typed by the user
Resolve ==
    /\ ret.step = "encoded"
    /\ ret' = [step |-> "resolved", code |-> ret.code,
               parsed |-> parse_match_code(ret.code), key |-> lookup_key(ret.code)]
    /\ UNCHANGED <<event_status, arg, fmt, teams, matches, calls, base>>

LookupNext == Encode \/ Resolve

LookupSpec == CodeInit /\ [][LookupNext]_vars

\* C25: a code that parse_match_code accepts is resolved by
\* get_match_by_code to the key parse_match_code returns for it, for Winners,
\* Losers and Grand Finals codes alike.
C25_LookupAgreesWithParse ==
    (ret.step = "resolved" /\ ret.parsed.raised = "none") => ret.key = ret.parsed.ref

\* C25 for Winners and Losers codes
C25_WinnersAndLosersCodes ==
    (ret.step = "resolved" /\ ret.parsed.raised = "none" /\ arg[1] # "GF") =>
        ret.key = ret.parsed.ref

\* the code GF-01 has been looked up and no key came of it
C25_Witness ==
    /\ ret.step = "resolved"
    /\ ret.code = <<"G", "F", "-", "0", "1">>
    /\ ret.parsed = Parsed("GF", 1, 1)
    /\ ret.key = NoMatch
    /\ get_match_by_code({Row("GF", 1, 1, 1, 2)}, ret.code) = {}

\* the number of Completed matches of ms that record t as loser, and the
\* number of losses that eliminates an entrant
Losses(ms, t) == Cardinality({m \in ms : m.status = "completed" /\ m.loser = t})
LossLimit == IF fmt = "double_elim" /\ BracketSize >= 4 THEN 2 ELSE 1

\* no entrant has more losses than eliminate it, and an eliminated entrant is
\* in no Pending match
C26_State ==
    \A t \in TeamIds :
        /\ Losses(matches, t) <= LossLimit
        /\ Losses(matches, t) = LossLimit =>
              \A m \in matches : m.status = "pending" => t \notin Occupants(m)

\* the matches a step creates hold no entrant eliminated by then
C26_Step ==
    \A m \in matches' : Key(m) \notin {Key(x) : x \in matches} =>
        \A t \in Occupants(m) : Losses(matches', t) < LossLimit

\* C26: no entrant is the recorded loser of more than one Completed match in
\* single elimination, or of more than two in double elimination with bracket
\* size >= 4, and no match created once an entrant has that many losses holds
\* that entrant.
C26_EliminatedStayOut == []C26_State /\ [][C26_Step]_vars

\* in a double elimination one entrant has two losses, another has one loss
\* and is in a Pending match
C26_Witness ==
    /\ fmt = "double_elim"
    /\ \E t \in TeamIds : Losses(matches, t) = 2
    /\ \E t \in TeamIds, m \in matches :
          Losses(matches, t) = 1 /\ m.status = "pending" /\ t \in Occupants(m)

\* ------------------------------------------------------ interrupted advance
\* Calls run one at a time, statement by statement, and a call can end between
\* two create_match calls of the round it is creating: an error other than
\* IntegrityError leaves _safe_create_match and the pass, and the rows already
\* inserted stay, each INSERT being its own transaction.

\* no call is in flight
Settled == \A p \in Procs : calls[p].pc \in {"idle", "done"}

\* advance or report_match starts while no other call is in flight
StartAlone(p) ==
    /\ Settled
    /\ StartCall(p)
    /\ calls'[p].op # "record_result"

\* the call ends before the create_match of a match after the first of its round
Crash(p) ==
    LET c == calls[p]
    IN  /\ c.pc = "insert"
        /\ Head(c.todo)[1] # "GF" /\ Head(c.todo)[3] > 1
        /\ calls' = [calls EXCEPT ![p] = Returned(c, "crash")]
        /\ UNCHANGED <<event_status, arg, ret, fmt, teams, matches, base>>

\* whole calls between the interrupted ones, the better seed winning
Play == Settled /\ (CreateBracket \/ Advance \/ ReportFavourite)

CrashNext ==
    \/ Play
    \/ \E p \in Procs :
          \/ StartAlone(p)
          \/ FetchMatch(p)
          \/ UpdateMatch(p)
          \/ ListMatches(p)
          \/ CreateMatch(p)
          \/ SetByeWinner(p)
          \/ GetEvent(p)
          \/ ListForStatus(p)
          \/ SetEventStatus(p)
          \/ Crash(p)

CrashSpec == Init /\ [][CrashNext]_vars

\* the champion of ms can be decided: the Winners Final exists, and in a
\* double elimination of size >= 4 the Grand Finals too
FinalsCreated(ms) ==
    /\ \E m \in ms : m.bracket = "W" /\ m.round_no = WinnersRounds
    /\ (fmt = "double_elim" /\ BracketSize >= 4) => \E m \in ms : m.bracket = "GF"

\* C27: whenever no call is in flight, also after a pass that ended between two
\* insertions of a round, an advance call leaves every Winners round it finds
\* or creates with all its matches (bracket size / 2^r in round r), and if
\* nothing is Pending after it the finals have been created: part of a round
\* is never taken for the whole round.
C27_LaterAdvanceCompletesRound ==
    (Settled /\ matches # {}) =>
        LET after == advance(matches).ms
        IN  /\ \A r \in 2..WinnersRounds :
                  LET round == {m \in after : m.bracket = "W" /\ m.round_no = r}
                  IN  round # {} => Cardinality(round) = BracketSize \div (2 ^ r)
            /\ (\A m \in after : m.status = "completed") => FinalsCreated(after)

\* a pass has ended after W2-01 of a size-8 bracket, W2-02 is missing, and
\* no call is in flight
C27_Witness ==
    /\ Settled
    /\ \E p \in Procs : calls[p].raised = "crash"
    /\ BracketSize = 8
    /\ Cardinality(Rows("W", 2)) = 1

\* the matches of ms that are not Completed and hold t
OpenMatchesOf(ms, t) == {m \in ms : m.status # "completed" /\ t \in Occupants(m)}

\* C28: in every state reached by create_bracket, the two reporters and
\* advance called one after another, each entrant is in a slot of at most one
\* match that is not Completed, and no match holds one entrant in both slots.
C28_OneOpenMatchPerEntrant ==
    /\ \A t \in TeamIds : Cardinality(OpenMatchesOf(matches, t)) <= 1
    /\ \A m \in matches : m.t1 # m.t2

\* a double elimination in which the Grand Finals reset match is Pending and
\* holds two entrants that have met before
C28_Witness ==
    /\ fmt = "double_elim"
    /\ \E m \in RowAt("GF", 1, 2) : m.status = "pending" /\ m.t1 # m.t2
    /\ \E t \in TeamIds : OpenMatchesOf(matches, t) # {}

\* ------------------------------------------------------------- event status
\* no match of ms is Pending and advance creates nothing more
Decided(ms) ==
    /\ \A m \in ms : m.status = "completed"
    /\ advance(ms).ms = ms

\* what report_match leaves when a Pending match is reported for an occupant
\* (P(out, status): the rows with what was raised, and the status of the event)
ReportsLeave(P(_, _)) ==
    \A m \in matches : \A w \in Occupants(m) :
        m.status = "pending" =>
            \A out \in {report_match(matches, Key(m), w)} :
                P(out, report_match_status(matches, Key(m), out, event_status))

\* C29: when report_match returns for the result that decides the champion,
\* the event is 'completed', in single elimination and in double elimination
\* with any number of entrants from 2; and report_match sets 'completed' only
\* when no match is Pending, the Grand Finals reset included.
C29_CompletedWhenDecided ==
    ReportsLeave(LAMBDA out, status :
        /\ (out.raised = "none" /\ Decided(out.ms)) => status = "completed"
        /\ (status = "completed" /\ event_status # "completed") =>
              \A x \in out.ms : x.status = "completed")

\* C29 for all events but the double elimination of two entrants
C29_CompletedWhenGrandFinalsExist ==
    (fmt = "double_elim" => BracketSize >= 4) => C29_CompletedWhenDecided

\* the only match of a two-entrant double elimination has been reported and
\* the event is still 'active'
C29_Witness ==
    /\ fmt = "double_elim" /\ Len(teams) = 2
    /\ matches # {} /\ Decided(matches)
    /\ event_status = "active"

\* ------------------------------------------------------------ bracket diagram
BracketNode(bracket, round_no, match_no) ==
    [bracket |-> bracket, round_no |-> round_no, match_no |-> match_no]

\* BracketNode.code
code(n) == match_code(n.bracket, n.round_no, n.match_no)

\* BracketDiagramRenderer._build_nodes before the match rows are applied: the
\* nodes of the complete topology (the dictionary's values; its keys are
\* their codes)
_build_nodes(event_format, team_count) ==
    LET bracket_size == next_power_of_two(Max(2, team_count))
        k == log2_int(bracket_size)
        winners == {BracketNode("W", r, m) : r \in 1..k, m \in 1..bracket_size}
        losers == {BracketNode("L", r, m) : r \in 1..(2 * (k - 1)), m \in 1..bracket_size}
    IN  {n \in winners : n.match_no <= bracket_size \div (2 ^ n.round_no)}
            \cup (IF event_format = "double_elim"
                     THEN {n \in losers :
                              n.match_no <= bracket_size \div (2 ^ (((n.round_no + 1) \div 2) + 1))}
                          \cup {BracketNode("GF", 1, 1)}
                     ELSE {})

\* nodes.get(match_code(b, r, m)) for a match row: the nodes found
node_of(nodes, row) ==
    {n \in nodes : code(n) = match_code(row.bracket, row.round_no, row.match_no)}

\* the match rows that 'Apply match rows from DB' skips
dropped(nodes, ms) == {row \in ms : node_of(nodes, row) = {}}

\* C30: for both formats and every entrant count, each match the engine has
\* created has a node with the same (bracket, round, match number) in the
\* topology _build_nodes computes for the event, so that no match row, the
\* Grand Finals reset match included, is dropped when the rows are applied.
C30_EveryMatchHasNode ==
    LET nodes == _build_nodes(fmt, Len(teams))
    IN  /\ dropped(nodes, matches) = {}
        /\ \A row \in matches : \A n \in node_of(nodes, row) :
              <<n.bracket, n.round_no, n.match_no>> = Key(row)

\* C30 for all matches but the Grand Finals reset match
C30_AllButResetHaveNode ==
    LET nodes == _build_nodes(fmt, Len(teams))
    IN  /\ dropped(nodes, matches) \subseteq RowAt("GF", 1, 2)
        /\ \A row \in matches : \A n \in node_of(nodes, row) :
              <<n.bracket, n.round_no, n.match_no>> = Key(row)

\* the Grand Finals reset match exists and the rows are applied
C30_Witness ==
    /\ RowAt("GF", 1, 2) # {}
    /\ dropped(_build_nodes(fmt, Len(teams)), matches) = RowAt("GF", 1, 2)
====
